---- MODULE Spec2Model ----
(***************************************************************************)
(* Model of pkg/verify/verify.go: the installation verifier                *)
(* (KubeInstallVerify) and the connection verifier (KubeConnectionVerify). *)
(*                                                                         *)
(* Every public method is one action.  The answers of the kubectl          *)
(* collaborator are inputs of the action, drawn from small sets.  The      *)
(* state records the loaded installation, the call that just returned,     *)
(* what it returned, and the collaborator calls it issued (with their      *)
(* answers), until the caller takes the result and makes the next call.    *)
(*                                                                         *)
(* Strings that the code trims or measures (Kind, Labels, the file path)   *)
(* are sequences of one-character strings.  The Name and APIVersion of a   *)
(* component are only passed through to kubectl and are left out.          *)
(***************************************************************************)
EXTENDS Naturals, Sequences, FiniteSets, TLC

VARIABLES installation, op, yes, err, panicked, calls

vars == <<installation, op, yes, err, panicked, calls>>

----------------------------------------------------------------------------
(* Bounds *)

MaxComponents == 2
MaxNodes == 2
MaxPods == 2

----------------------------------------------------------------------------
(* Values *)

UniqueNodeCond == "unique-node"
DeleteAnyPodAction == "delete-any-pod"
DeleteOldestPodAction == "delete-oldest-pod"

Conditions == {UniqueNodeCond, "bogus"}
ActionNames == {DeleteAnyPodAction, DeleteOldestPodAction, "bogus"}

NoErr == "nil"
ErrNoFile == "verify file is not provided"
ErrRead == "read file failed"
ErrParse == "yaml unmarshal failed"
ErrNilInstall == "installation object is nil"
ErrKindRequired == "component kind is required"
ErrLabels == "component labels are missing"
ErrCondition == "condition is not supported"
ErrAction == "action is not supported"
ErrNotFound == "component not found for alias"
ErrMultiple == "multiple components found for alias"
ErrNoPod == "running pod not found"
ErrKubectl == "kubectl error"

VerifierErrors ==
  {ErrNilInstall, ErrKindRequired, ErrLabels, ErrCondition, ErrAction,
   ErrNotFound, ErrMultiple, ErrNoPod}

PodKind == <<"p", "o">>
Aliases == {"db", "web"}
Namespaces == {"ns1", "ns2"}
Nodes == {"A", "B"}
Pods == {"p1", "p2"}

KindValues == {PodKind, <<"s", "v", "c">>, <<" ">>}
LabelValues == {<<>>, <<" ">>, <<"a">>}

Component ==
  [Kind : KindValues, Labels : LabelValues, Alias : Aliases,
   Namespace : Namespaces]

SeqsUpTo(S, n) == UNION {[1..k -> S] : k \in 0..n}

\* *Installation: ptr tells whether the pointer is set
Installation == [ptr : {"set"}, Components : SeqsUpTo(Component, MaxComponents)]

\* the installation pointer of a verifier that was never given one
Nil == [ptr |-> "nil", Components |-> <<>>]
\* no verifier exists yet
Unbuilt == [ptr |-> "unbuilt", Components |-> <<>>]

\* a verify file: its path, whether it can be read, whether it is valid
\* yaml, and the installation it describes
VerifyFile ==
  {[path |-> <<>>, readable |-> TRUE, valid |-> TRUE, content |-> <<>>],
   [path |-> <<"f">>, readable |-> FALSE, valid |-> TRUE, content |-> <<>>],
   [path |-> <<"f">>, readable |-> TRUE, valid |-> FALSE, content |-> <<>>]}
  \cup {[path |-> <<"f">>, readable |-> TRUE, valid |-> TRUE, content |-> cs] :
          cs \in SeqsUpTo(Component, MaxComponents)}

----------------------------------------------------------------------------
(* Collaborator (package kubectl) *)

\* one collaborator call with the arguments it got and the answer it gave
Call(fn, ns, labels, pod, ansYes, ansList, ansErr) ==
  [fn |-> fn, ns |-> ns, labels |-> labels, pod |-> pod,
   yes |-> ansYes, list |-> ansList, err |-> ansErr]

KubeErrs == {NoErr, ErrKubectl}

\* answers of IsResourceDeployed and ArePodsRunning
BoolAnswers == [yes : BOOLEAN, err : KubeErrs]
\* answers of GetPodNodes
NodeAnswers ==
  [list : SeqsUpTo(Nodes, MaxNodes), err : {NoErr}]
  \cup {[list |-> <<>>, err |-> ErrKubectl]}
\* answers of GetRunningPods
PodsAnswers ==
  [list : SeqsUpTo(Pods, MaxPods), err : {NoErr}]
  \cup {[list |-> <<>>, err |-> ErrKubectl]}
\* answers of GetOldestRunningPod ("" is the empty pod name)
OldestAnswers ==
  [pod : Pods \cup {""}, err : {NoErr}] \cup {[pod |-> "", err |-> ErrKubectl]}

\* kubectl.IsPod: does a kind string denote a pod
IsPod(kind) == kind = PodKind

----------------------------------------------------------------------------
(* Helpers *)

IsSpace(ch) == ch = " "

RECURSIVE TrimLeft(_)
TrimLeft(s) ==
  IF s # <<>> /\ IsSpace(Head(s)) THEN TrimLeft(Tail(s)) ELSE s

RECURSIVE TrimRight(_)
TrimRight(s) ==
  IF s # <<>> /\ IsSpace(s[Len(s)])
  THEN TrimRight(SubSeq(s, 1, Len(s) - 1))
  ELSE s

\* TrimSpace left out: the string is measured as it is
TrimSpaceNone(s) == s

\* strings.TrimSpace
TrimSpace(s) == TrimRight(TrimLeft(s))

\* what a method returns, and the collaborator calls it issued
Ret(y, e, cs) == [yes |-> y, err |-> e, calls |-> cs, panicked |-> FALSE]
\* a nil pointer dereference
Panic == [yes |-> FALSE, err |-> NoErr, calls |-> <<>>, panicked |-> TRUE]

----------------------------------------------------------------------------
(* Loading *)

\* unmarshal: yaml.Unmarshal into a fresh Installation
unmarshal(file) ==
  IF ~file.valid
  THEN [installation |-> [ptr |-> "set", Components |-> <<>>], err |-> ErrParse]
  ELSE [installation |-> [ptr |-> "set", Components |-> file.content],
        err |-> NoErr]

load(file) ==
  IF Len(file.path) = 0
  THEN [installation |-> Nil, err |-> ErrNoFile]
  ELSE IF ~file.readable
  THEN [installation |-> Nil, err |-> ErrRead]
  ELSE unmarshal(file)

----------------------------------------------------------------------------
(* IsDeployed *)

isComponentDeployed(component, a) ==
  Ret(a.yes, a.err,
      <<Call("IsResourceDeployed", component.Namespace, component.Labels, "",
             a.yes, <<>>, a.err)>>)

\* the loop with the answers and-ed together
RECURSIVE deployLoopAnd(_, _, _, _)
deployLoopAnd(comps, ans, i, acc) ==
  IF i > Len(comps)
  THEN acc
  ELSE LET r == isComponentDeployed(comps[i], ans[i])
           next == Ret((i = 1 \/ acc.yes) /\ r.yes, r.err, acc.calls \o r.calls)
       IN IF r.err # NoErr THEN next ELSE deployLoopAnd(comps, ans, i + 1, next)

RECURSIVE deployLoop(_, _, _, _)
deployLoop(comps, ans, i, acc) ==
  IF i > Len(comps)
  THEN acc
  ELSE LET r == isComponentDeployed(comps[i], ans[i])
           next == Ret(r.yes, r.err, acc.calls \o r.calls)
       IN IF r.err # NoErr THEN next ELSE deployLoop(comps, ans, i + 1, next)

IsDeployedResult(inst, ans) ==
  IF inst = Nil
  THEN Ret(FALSE, ErrNilInstall, <<>>)
  ELSE deployLoop(inst.Components, ans, 1, Ret(FALSE, NoErr, <<>>))

----------------------------------------------------------------------------
(* IsRunning *)

isPodComponentRunning(component, a) ==
  LET kindErr == IF Len(TrimSpace(component.Kind)) = 0
                 THEN ErrKindRequired ELSE NoErr
  IN IF ~IsPod(component.Kind)
     THEN Ret(TRUE, kindErr, <<>>)
     ELSE IF Len(TrimSpace(component.Labels)) = 0
     THEN Ret(FALSE, ErrLabels, <<>>)
     ELSE Ret(a.yes, a.err,
              <<Call("ArePodsRunning", component.Namespace, component.Labels,
                     "", a.yes, <<>>, a.err)>>)

\* the loop without the break on error
RECURSIVE runLoopNoBreak(_, _, _, _)
runLoopNoBreak(comps, ans, i, acc) ==
  IF i > Len(comps)
  THEN acc
  ELSE LET r == isPodComponentRunning(comps[i], ans[i])
       IN runLoopNoBreak(comps, ans, i + 1,
                         Ret(r.yes, r.err, acc.calls \o r.calls))

RECURSIVE runLoop(_, _, _, _)
runLoop(comps, ans, i, acc) ==
  IF i > Len(comps)
  THEN acc
  ELSE LET r == isPodComponentRunning(comps[i], ans[i])
           next == Ret(r.yes, r.err, acc.calls \o r.calls)
       IN IF r.err # NoErr THEN next ELSE runLoop(comps, ans, i + 1, next)

IsRunningResult(inst, ans) ==
  IF inst = Nil
  THEN Ret(FALSE, ErrNilInstall, <<>>)
  ELSE runLoop(inst.Components, ans, 1, Ret(FALSE, NoErr, <<>>))

----------------------------------------------------------------------------
(* IsCondition *)

\* the positions, in list order, of the components with the given alias
RECURSIVE filterAlias(_, _, _)
filterAlias(comps, alias, i) ==
  IF i > Len(comps)
  THEN <<>>
  ELSE IF comps[i].Alias = alias
  THEN <<i>> \o filterAlias(comps, alias, i + 1)
  ELSE filterAlias(comps, alias, i + 1)

\* the scan that remembers only the node before the current one
RECURSIVE noDuplicateNodeAdjacent(_, _, _)
noDuplicateNodeAdjacent(nodes, i, exists) ==
  IF i > Len(nodes)
  THEN TRUE
  ELSE IF nodes[i] \in exists
  THEN FALSE
  ELSE noDuplicateNodeAdjacent(nodes, i + 1, {nodes[i]})

\* the scan of the node list with the map of nodes seen so far
RECURSIVE noDuplicateNode(_, _, _)
noDuplicateNode(nodes, i, exists) ==
  IF i > Len(nodes)
  THEN TRUE
  ELSE IF nodes[i] \in exists
  THEN FALSE
  ELSE noDuplicateNode(nodes, i + 1, exists \cup {nodes[i]})

RECURSIVE nodeLoop(_, _, _, _, _, _)
nodeLoop(comps, filtered, ans, k, nodes, cs) ==
  IF k > Len(filtered)
  THEN Ret(noDuplicateNode(nodes, 1, {}), NoErr, cs)
  ELSE LET f == comps[filtered[k]]
           a == ans[filtered[k]]
           c == Call("GetPodNodes", f.Namespace, f.Labels, "", FALSE, a.list,
                     a.err)
       IN IF ~IsPod(f.Kind)
          THEN nodeLoop(comps, filtered, ans, k + 1, nodes, cs)
          ELSE IF Len(TrimSpace(f.Labels)) = 0
          THEN Ret(FALSE, ErrLabels, cs)
          ELSE IF a.err # NoErr
          THEN Ret(FALSE, a.err, Append(cs, c))
          ELSE nodeLoop(comps, filtered, ans, k + 1, nodes \o a.list,
                        Append(cs, c))

isEachComponentOnUniqueNode(inst, alias, ans) ==
  IF inst = Nil
  THEN Panic
  ELSE nodeLoop(inst.Components, filterAlias(inst.Components, alias, 1), ans,
                1, <<>>, <<>>)

IsConditionResult(inst, alias, condition, ans) ==
  IF condition = UniqueNodeCond
  THEN isEachComponentOnUniqueNode(inst, alias, ans)
  ELSE Ret(FALSE, ErrCondition, <<>>)

----------------------------------------------------------------------------
(* IsAction *)

\* kubectl.DeletePod and its answer
DeletePodCall(pod, ns, delErr) ==
  Call("DeletePod", ns, <<>>, pod, FALSE, <<>>, delErr)

NoComponent == [Kind |-> <<>>, Labels |-> <<>>, Alias |-> "", Namespace |-> ""]

\* the lookup without the check for more than one match
getMatchingPodComponentFirst(inst, alias) ==
  IF inst = Nil
  THEN [comp |-> NoComponent, err |-> NoErr, panicked |-> TRUE]
  ELSE LET filtered ==
             SelectSeq(inst.Components,
                       LAMBDA c : c.Alias = alias /\ IsPod(c.Kind))
       IN IF Len(filtered) = 0
          THEN [comp |-> NoComponent, err |-> ErrNotFound, panicked |-> FALSE]
          ELSE [comp |-> filtered[1], err |-> NoErr, panicked |-> FALSE]

getMatchingPodComponent(inst, alias) ==
  IF inst = Nil
  THEN [comp |-> NoComponent, err |-> NoErr, panicked |-> TRUE]
  ELSE LET filtered ==
             SelectSeq(inst.Components,
                       LAMBDA c : c.Alias = alias /\ IsPod(c.Kind))
       IN IF Len(filtered) = 0
          THEN [comp |-> NoComponent, err |-> ErrNotFound, panicked |-> FALSE]
          ELSE IF Len(filtered) > 1
          THEN [comp |-> NoComponent, err |-> ErrMultiple, panicked |-> FALSE]
          ELSE [comp |-> filtered[1], err |-> NoErr, panicked |-> FALSE]


\* the action deleting the last listed pod instead of the first
isDeleteAnyRunningPodLast(inst, alias, pa, delErr) ==
  LET m == getMatchingPodComponent(inst, alias)
      c == m.comp
      get == Call("GetRunningPods", c.Namespace, c.Labels, "", FALSE, pa.list,
                  pa.err)
  IN IF m.panicked THEN Panic
     ELSE IF m.err # NoErr THEN Ret(FALSE, m.err, <<>>)
     ELSE IF Len(TrimSpace(c.Labels)) = 0 THEN Ret(FALSE, ErrLabels, <<>>)
     ELSE IF pa.err # NoErr THEN Ret(FALSE, pa.err, <<get>>)
     ELSE IF Len(pa.list) = 0 THEN Ret(FALSE, ErrNoPod, <<get>>)
     ELSE Ret(delErr = NoErr, delErr,
              <<get, DeletePodCall(pa.list[Len(pa.list)], c.Namespace, delErr)>>)

isDeleteAnyRunningPod(inst, alias, pa, delErr) ==
  LET m == getMatchingPodComponent(inst, alias)
      c == m.comp
      get == Call("GetRunningPods", c.Namespace, c.Labels, "", FALSE, pa.list,
                  pa.err)
  IN IF m.panicked THEN Panic
     ELSE IF m.err # NoErr THEN Ret(FALSE, m.err, <<>>)
     ELSE IF Len(TrimSpace(c.Labels)) = 0 THEN Ret(FALSE, ErrLabels, <<>>)
     ELSE IF pa.err # NoErr THEN Ret(FALSE, pa.err, <<get>>)
     ELSE IF Len(pa.list) = 0 THEN Ret(FALSE, ErrNoPod, <<get>>)
     ELSE IF delErr # NoErr
     THEN Ret(FALSE, delErr,
              <<get, DeletePodCall(pa.list[1], c.Namespace, delErr)>>)
     ELSE Ret(TRUE, NoErr,
              <<get, DeletePodCall(pa.list[1], c.Namespace, delErr)>>)

\* the action without the check for an empty pod name
isDeleteOldestRunningPodUnchecked(inst, alias, oa, delErr) ==
  LET m == getMatchingPodComponent(inst, alias)
      c == m.comp
      get == Call("GetOldestRunningPod", c.Namespace, c.Labels, oa.pod, FALSE,
                  <<>>, oa.err)
  IN IF m.panicked THEN Panic
     ELSE IF m.err # NoErr THEN Ret(FALSE, m.err, <<>>)
     ELSE IF Len(TrimSpace(c.Labels)) = 0 THEN Ret(FALSE, ErrLabels, <<>>)
     ELSE IF oa.err # NoErr THEN Ret(FALSE, oa.err, <<get>>)
     ELSE Ret(delErr = NoErr, delErr,
              <<get, DeletePodCall(oa.pod, c.Namespace, delErr)>>)

isDeleteOldestRunningPod(inst, alias, oa, delErr) ==
  LET m == getMatchingPodComponent(inst, alias)
      c == m.comp
      get == Call("GetOldestRunningPod", c.Namespace, c.Labels, oa.pod, FALSE,
                  <<>>, oa.err)
  IN IF m.panicked THEN Panic
     ELSE IF m.err # NoErr THEN Ret(FALSE, m.err, <<>>)
     ELSE IF Len(TrimSpace(c.Labels)) = 0 THEN Ret(FALSE, ErrLabels, <<>>)
     ELSE IF oa.err # NoErr THEN Ret(FALSE, oa.err, <<get>>)
     ELSE IF oa.pod = "" THEN Ret(FALSE, ErrNoPod, <<get>>)
     ELSE IF delErr # NoErr
     THEN Ret(FALSE, delErr,
              <<get, DeletePodCall(oa.pod, c.Namespace, delErr)>>)
     ELSE Ret(TRUE, NoErr,
              <<get, DeletePodCall(oa.pod, c.Namespace, delErr)>>)

IsActionResult(inst, alias, action, ans, delErr) ==
  IF action = DeleteAnyPodAction
  THEN isDeleteAnyRunningPod(inst, alias, ans, delErr)
  ELSE IF action = DeleteOldestPodAction
  THEN isDeleteOldestRunningPod(inst, alias, ans, delErr)
  ELSE Ret(FALSE, ErrAction, <<>>)

----------------------------------------------------------------------------
(* IsConnected *)

IsConnectedResult(runErr) ==
  Ret(runErr = NoErr, runErr,
      <<Call("Run", "", <<>>, "", FALSE, <<>>, runErr)>>)

----------------------------------------------------------------------------
(* State machine *)

NoOp == [name |-> "none", alias |-> "", arg |-> ""]

Init ==
  /\ installation = Unbuilt
  /\ op = NoOp
  /\ yes = FALSE
  /\ err = NoErr
  /\ panicked = FALSE
  /\ calls = <<>>

Returns(o, r) ==
  /\ op' = o
  /\ yes' = r.yes
  /\ err' = r.err
  /\ panicked' = r.panicked
  /\ calls' = r.calls

\* Calls are made one after the other: a call starts when the values the
\* previous one returned have been taken
Idle == op = NoOp

NewKubeInstallVerify ==
  /\ Idle
  /\ installation = Unbuilt
  /\ \E file \in VerifyFile :
       LET l == load(file)
       IN /\ installation' = IF l.err # NoErr THEN Unbuilt ELSE l.installation
          /\ Returns([name |-> "NewKubeInstallVerify", alias |-> "", arg |-> ""],
                     Ret(FALSE, l.err, <<>>))

\* a verifier value built without the constructor: its installation is nil
ZeroValueVerifier ==
  /\ Idle
  /\ installation = Unbuilt
  /\ installation' = Nil
  /\ Returns([name |-> "KubeInstallVerify{}", alias |-> "", arg |-> ""],
             Ret(FALSE, NoErr, <<>>))

Built == installation # Unbuilt

Comps == installation.Components

IsDeployed ==
  /\ Idle
  /\ Built
  /\ \E ans \in [1..Len(Comps) -> BoolAnswers] :
       Returns([name |-> "IsDeployed", alias |-> "", arg |-> ""],
               IsDeployedResult(installation, ans))
  /\ UNCHANGED installation

\* the components whose pods a running check may ask for
RunQueried == {i \in 1..Len(Comps) : IsPod(Comps[i].Kind)}

IsRunning ==
  /\ Idle
  /\ Built
  /\ \E ans \in [RunQueried -> BoolAnswers] :
       Returns([name |-> "IsRunning", alias |-> "", arg |-> ""],
               IsRunningResult(installation, ans))
  /\ UNCHANGED installation

\* the components whose nodes a unique-node check may ask for
NodeQueried(alias) ==
  {i \in 1..Len(Comps) : Comps[i].Alias = alias /\ IsPod(Comps[i].Kind)}

IsCondition ==
  /\ Idle
  /\ Built
  /\ \E alias \in Aliases, condition \in Conditions :
       \E ans \in [NodeQueried(alias) -> NodeAnswers] :
         Returns([name |-> "IsCondition", alias |-> alias, arg |-> condition],
                 IsConditionResult(installation, alias, condition, ans))
  /\ UNCHANGED installation

\* the answers the running-pod query of an action can give
RunningAnswers(action) ==
  IF action = DeleteAnyPodAction THEN PodsAnswers ELSE OldestAnswers

IsAction ==
  /\ Idle
  /\ Built
  /\ \E alias \in Aliases, action \in ActionNames :
       \E ans \in RunningAnswers(action), delErr \in KubeErrs :
         Returns([name |-> "IsAction", alias |-> alias, arg |-> action],
                 IsActionResult(installation, alias, action, ans, delErr))
  /\ UNCHANGED installation

\* KubeConnectionVerify needs no installation
IsConnected ==
  /\ Idle
  /\ \E runErr \in KubeErrs :
       Returns([name |-> "IsConnected", alias |-> "", arg |-> ""],
               IsConnectedResult(runErr))
  /\ UNCHANGED installation

\* the caller takes the returned values; a panic ends the program
Discard ==
  /\ ~Idle
  /\ ~panicked
  /\ Returns(NoOp, Ret(FALSE, NoErr, <<>>))
  /\ UNCHANGED installation

Next ==
  \/ Discard
  \/ NewKubeInstallVerify
  \/ ZeroValueVerifier
  \/ IsDeployed
  \/ IsRunning
  \/ IsCondition
  \/ IsAction
  \/ IsConnected

Spec == Init /\ [][Next]_vars

----------------------------------------------------------------------------
(* Vocabulary of the properties *)

Loaded == installation.ptr = "set"

Blank(str) == \A i \in 1..Len(str) : str[i] = " "

\* the k-th smallest member of a set of positions
Nth(S, k) == CHOOSE i \in S : Cardinality({j \in S : j < i}) = k - 1

PodsOf(alias) ==
  {i \in 1..Len(Comps) : IsPod(Comps[i].Kind) /\ Comps[i].Alias = alias}

RECURSIVE Flatten(_, _)
Flatten(cs, k) ==
  IF k > Len(cs) THEN <<>> ELSE cs[k].list \o Flatten(cs, k + 1)

NoRepeat(seq) == \A i, j \in 1..Len(seq) : i # j => seq[i] # seq[j]

DeleteOp ==
  op.name = "IsAction" /\ op.arg \in {DeleteAnyPodAction, DeleteOldestPodAction}

UniqueNodeOp == op.name = "IsCondition" /\ op.arg = UniqueNodeCond

QueryOf(action) ==
  IF action = DeleteAnyPodAction THEN "GetRunningPods" ELSE "GetOldestRunningPod"

\* the call was made for the component at position i
CallFor(c, i) ==
  c.ns = Comps[i].Namespace /\ c.labels = Comps[i].Labels

----------------------------------------------------------------------------
(* C1: when no error occurs, IsCondition(alias, unique-node) asks for the  *)
(* nodes of exactly the pod components that carry the alias, in list       *)
(* order, and returns true iff the concatenation of the node lists it got  *)
(* names no node twice (true when no pod component carries the alias).     *)
C1_UniqueNodeIffNoRepeat ==
  (UniqueNodeOp /\ Loaded /\ err = NoErr) =>
    LET P == PodsOf(op.alias)
    IN /\ Len(calls) = Cardinality(P)
       /\ \A k \in 1..Len(calls) :
            calls[k].fn = "GetPodNodes" /\ CallFor(calls[k], Nth(P, k))
       /\ yes = NoRepeat(Flatten(calls, 1))

\* the same node twice in one component's list, after a component that
\* had a different node
C1_Witness ==
  /\ UniqueNodeOp /\ Loaded /\ err = NoErr
  /\ Len(calls) = 2
  /\ calls[1].list = <<"A", "B">>
  /\ calls[2].list = <<"A">>
  /\ ~yes

----------------------------------------------------------------------------
(* C2: getMatchingPodComponent(alias) returns a component without error    *)
(* exactly when exactly one component is pod-kind with that alias, and     *)
(* then returns that component; otherwise a delete action on the alias     *)
(* fails without any collaborator call.                                    *)
C2_ExactlyOneMatch ==
  Loaded =>
    /\ \A alias \in Aliases :
         LET m == getMatchingPodComponent(installation, alias)
             P == PodsOf(alias)
         IN /\ ~m.panicked
            /\ (m.err = NoErr) <=> (Cardinality(P) = 1)
            /\ m.err = NoErr => m.comp = Comps[Nth(P, 1)]
            /\ Cardinality(P) = 0 => m.err = ErrNotFound
            /\ Cardinality(P) > 1 => m.err = ErrMultiple
    /\ (DeleteOp /\ Cardinality(PodsOf(op.alias)) # 1) =>
         /\ err \in {ErrNotFound, ErrMultiple}
         /\ ~yes
         /\ calls = <<>>

\* two pod components share the alias: the delete action fails on the
\* ambiguity
C2_Witness ==
  /\ DeleteOp /\ Loaded
  /\ Cardinality(PodsOf(op.alias)) = 2
  /\ err = ErrMultiple

----------------------------------------------------------------------------
(* C3: a delete action on an alias that resolves to one pod component with *)
(* labels queries the running pods of that component; no pod or a failed   *)
(* query gives an error with false and no delete; otherwise the pod the    *)
(* query chose is deleted in the component's namespace, and the call       *)
(* returns true without error iff the delete succeeded.                    *)
C3_DeleteChosenPod ==
  (DeleteOp /\ Loaded /\ Cardinality(PodsOf(op.alias)) = 1
     /\ ~Blank(Comps[Nth(PodsOf(op.alias), 1)].Labels)) =>
    LET i == Nth(PodsOf(op.alias), 1)
        q == calls[1]
        chosen == IF op.arg = DeleteAnyPodAction
                  THEN (IF Len(q.list) = 0 THEN "" ELSE q.list[1])
                  ELSE q.pod
    IN /\ Len(calls) >= 1
       /\ q.fn = QueryOf(op.arg) /\ CallFor(q, i)
       /\ q.err # NoErr => Len(calls) = 1 /\ ~yes /\ err = q.err
       /\ (q.err = NoErr /\ chosen = "") =>
            Len(calls) = 1 /\ ~yes /\ err = ErrNoPod
       /\ (q.err = NoErr /\ chosen # "") =>
            /\ Len(calls) = 2
            /\ calls[2].fn = "DeletePod"
            /\ calls[2].pod = chosen
            /\ calls[2].ns = Comps[i].Namespace
            /\ err = calls[2].err
            /\ yes = (calls[2].err = NoErr)

\* two running pods are listed and the first one is deleted
C3_Witness ==
  /\ DeleteOp /\ Loaded /\ op.arg = DeleteAnyPodAction
  /\ Len(calls) = 2
  /\ calls[1].list = <<"p1", "p2">>
  /\ calls[2].pod = "p1"
  /\ yes /\ err = NoErr

----------------------------------------------------------------------------
(* C4: a pod component with empty or blank labels makes IsRunning return   *)
(* an error wherever it sits, and makes a delete action that resolves to   *)
(* it return an error; no query and no delete is issued for it.            *)
C4_MissingLabelsFail ==
  Loaded =>
    /\ (op.name = "IsRunning"
          /\ \E i \in 1..Len(Comps) :
               IsPod(Comps[i].Kind) /\ Blank(Comps[i].Labels)) =>
         /\ err # NoErr
         /\ \A k \in 1..Len(calls) : ~Blank(calls[k].labels)
    /\ (DeleteOp /\ Cardinality(PodsOf(op.alias)) = 1
          /\ Blank(Comps[Nth(PodsOf(op.alias), 1)].Labels)) =>
         /\ err # NoErr
         /\ ~yes
         /\ calls = <<>>

\* the component without labels comes second, after a pod component whose
\* pods were found running
C4_Witness ==
  /\ op.name = "IsRunning" /\ Loaded
  /\ Len(Comps) = 2
  /\ IsPod(Comps[2].Kind) /\ Comps[2].Labels = <<" ">>
  /\ Len(calls) = 1 /\ calls[1].yes
  /\ err = ErrLabels

----------------------------------------------------------------------------
(* C5: without error, IsDeployed returns true only if every component was  *)
(* found deployed, and IsRunning returns true only if the pods of every    *)
(* pod component were found running.                                       *)
C5_TrueOnlyIfAll ==
  (op.name \in {"IsDeployed", "IsRunning"} /\ Loaded /\ err = NoErr /\ yes) =>
    \A k \in 1..Len(calls) : calls[k].yes

----------------------------------------------------------------------------
----------------------------------------------------------------------------
(* C7: every failure of a public operation ends in a returned error, never *)
(* in a panic: in particular each of the four verifier methods returns an  *)
(* error when the installation is nil.                                     *)
C7_FailuresAreErrors ==
  /\ ~panicked
  /\ (installation = Nil
        /\ op.name \in {"IsDeployed", "IsRunning", "IsCondition", "IsAction"})
       => err # NoErr

----------------------------------------------------------------------------
(* C8: the aggregate checks are fail-fast.  In IsDeployed, IsRunning and   *)
(* the unique-node check the queries go to the components in list order,   *)
(* each at most once; a failed query is the last one and its error is the  *)
(* one returned; a component without labels (or, in IsRunning, without     *)
(* kind) is reached only if nothing failed before it, no later component   *)
(* is queried, and an error is returned.                                   *)

\* the components the operation asks the collaborator about
Queryable ==
  IF op.name = "IsDeployed" THEN 1..Len(Comps)
  ELSE IF op.name = "IsRunning"
  THEN {i \in 1..Len(Comps) : IsPod(Comps[i].Kind) /\ ~Blank(Comps[i].Labels)}
  ELSE {i \in PodsOf(op.alias) : ~Blank(Comps[i].Labels)}

\* the components whose evaluation fails before any query
Unusable ==
  IF op.name = "IsDeployed" THEN {}
  ELSE IF op.name = "IsRunning"
  THEN {i \in 1..Len(Comps) :
          Blank(Comps[i].Kind) \/ (IsPod(Comps[i].Kind) /\ Blank(Comps[i].Labels))}
  ELSE {i \in PodsOf(op.alias) : Blank(Comps[i].Labels)}

C8_FailFast ==
  ((op.name \in {"IsDeployed", "IsRunning"} \/ UniqueNodeOp) /\ Loaded) =>
    /\ Len(calls) <= Cardinality(Queryable)
    /\ \A k \in 1..Len(calls) :
         /\ CallFor(calls[k], Nth(Queryable, k))
         /\ calls[k].err # NoErr => k = Len(calls) /\ err = calls[k].err
    /\ \A i \in Unusable :
         /\ Len(calls) <= Cardinality({j \in Queryable : j < i})
         /\ err # NoErr
    /\ err = NoErr => Len(calls) = Cardinality(Queryable)

\* the second component's query fails after the first returned a node
\* twice: the error is returned, not false-without-error
C8_Witness ==
  /\ UniqueNodeOp /\ Loaded
  /\ Len(calls) = 2
  /\ calls[1].list = <<"A", "A">>
  /\ calls[2].err = ErrKubectl
  /\ err = ErrKubectl /\ ~yes

----------------------------------------------------------------------------
(* C9: a call issues at most one DeletePod, and only IsAction with a       *)
(* delete action does, after the alias resolved to one pod component with  *)
(* labels and the running-pod query returned a pod: the delete names a pod *)
(* from that answer and the component's namespace.  No operation changes   *)
(* a loaded installation.                                                  *)
DeleteCalls == {k \in 1..Len(calls) : calls[k].fn = "DeletePod"}

C9_DeleteState ==
  /\ Cardinality(DeleteCalls) <= 1
  /\ DeleteCalls # {} =>
       /\ DeleteOp /\ Loaded
       /\ Cardinality(PodsOf(op.alias)) = 1
       /\ LET c == Comps[Nth(PodsOf(op.alias), 1)]
          IN /\ ~Blank(c.Labels)
             /\ DeleteCalls = {2}
             /\ calls[1].fn = QueryOf(op.arg)
             /\ calls[1].err = NoErr
             /\ calls[2].pod # ""
             /\ \/ calls[2].pod = calls[1].pod
                \/ \E n \in 1..Len(calls[1].list) : calls[2].pod = calls[1].list[n]
             /\ calls[2].ns = c.Namespace

C9_DeleteConfined ==
  /\ []C9_DeleteState
  /\ [][installation # Unbuilt => installation' = installation]_vars

\* the oldest pod was found and its deletion failed
C9_Witness ==
  /\ DeleteOp /\ Loaded /\ op.arg = DeleteOldestPodAction
  /\ Len(calls) = 2
  /\ calls[1].pod = "p2"
  /\ calls[2].fn = "DeletePod" /\ calls[2].pod = "p2"
  /\ calls[2].err = ErrKubectl
  /\ err = ErrKubectl /\ ~yes

----------------------------------------------------------------------------
(* C10: when IsRunning, IsCondition or IsAction returns an error that the  *)
(* verifier raised itself, the boolean returned with it is false.          *)
C10_VerifierErrorIsFalse ==
  (op.name \in {"IsRunning", "IsCondition", "IsAction"}
     /\ ~panicked /\ err \in VerifierErrors) => ~yes

====
